---- MODULE Spec2Model ----
(***************************************************************************)
(* URL shortening service: the request handlers of app/main.py             *)
(* (shorten_url, redirect_url, get_url_stats), the helpers of utils.py     *)
(* (validate_url, normalize_url, generate_short_code,                      *)
(* get_unique_short_code) and the urls table of app/database.py.           *)
(*                                                                         *)
(* Requests run concurrently (several workers on one database): every      *)
(* database statement of a handler is one atomic step, and the steps of    *)
(* different requests interleave freely.                                   *)
(*                                                                         *)
(* A string is a sequence of chunks: a URL is <<scheme, host, ...>> or     *)
(* <<host, ...>>, a short code is a sequence of one-character strings.     *)
(***************************************************************************)
EXTENDS Integers, Sequences, FiniteSets, TLC

\* ------------------------------------------------------------------ bounds

\* Number of HTTP requests served in one behaviour.
NumRequests == 3

\* Number of workers: the requests that can be in progress at one time.
NumWorkers == 2

\* Number of distinct outcomes of the random source per code length.
NumChoices == 2

\* ------------------------------------------------------- program constants

\* get_unique_short_code(db, length=6, ...)
DefaultLength == 6

\* get_unique_short_code(db, ..., max_attempts=10)
DefaultMaxAttempts == 10

\* Field(..., min_length=1) of URLShortenRequest.url
UrlMinLength == 1

HTTP_201_CREATED == 201
HTTP_200_OK == 200
HTTP_302_FOUND == 302
HTTP_400_BAD_REQUEST == 400
HTTP_404_NOT_FOUND == 404
HTTP_422_UNPROCESSABLE_ENTITY == 422
HTTP_500_INTERNAL_SERVER_ERROR == 500

Requests == 1..NumRequests

\* ----------------------------------------------------------------- strings

Schemes == {"http://", "https://"}

\* url.startswith(('http://', 'https://'))
StartsWithScheme(url) == Len(url) > 0 /\ url[1] \in Schemes

\* Host names with a registered top-level domain.
Domains == {"example.com", "a.org"}

\* validators.url(url): a scheme followed by a host name is required.
validators_url(url) ==
    /\ Len(url) >= 2
    /\ url[1] \in Schemes
    /\ url[2] \in Domains

\* The request bodies clients send to POST /api/shorten.
RawUrls ==
    { <<>>,
      <<"not-a-valid-url">>,
      <<"example.com">>,
      <<"https://", "example.com">>,
      <<"http://", "example.com">>,
      <<"a.org">> }

\* string.ascii_letters + string.digits
alphabet ==
    << "a","b","c","d","e","f","g","h","i","j","k","l","m",
       "n","o","p","q","r","s","t","u","v","w","x","y","z",
       "A","B","C","D","E","F","G","H","I","J","K","L","M",
       "N","O","P","Q","R","S","T","U","V","W","X","Y","Z",
       "0","1","2","3","4","5","6","7","8","9" >>

\* str.lower() of a one-character string.
Lower(ch) ==
    IF \E k \in 27..52 : alphabet[k] = ch
    THEN alphabet[(CHOOSE k \in 27..52 : alphabet[k] = ch) - 26]
    ELSE ch

\* Whether sequence part occurs in sequence whole.
Contains(whole, part) ==
    \E k \in 0..(Len(whole) - Len(part)) :
        SubSeq(whole, k + 1, k + Len(part)) = part

\* ---------------------------------------------------------------- utils.py

validate_url(url) ==
    IF Len(url) = 0
    THEN FALSE
    ELSE IF ~StartsWithScheme(url)
         THEN validators_url(<<"https://">> \o url)
         ELSE validators_url(url)

\* A normalization that leaves the URL as it was given.
normalize_url_identity(url) ==
    url

normalize_url(url) ==
    IF ~StartsWithScheme(url)
    THEN <<"https://">> \o url
    ELSE url

\* A generator whose loop runs one time too few.
generate_short_code_short(length) ==
    { [i \in 1..(length - 1) |-> IF i = 1 THEN alphabet[k] ELSE alphabet[1]] :
        k \in 1..NumChoices }

\* The outcomes of generate_short_code(length): length draws of
\* secrets.choice(alphabet).  The random source is bounded: its first draw
\* ranges over the first NumChoices letters, every later draw gives
\* alphabet[1].
generate_short_code(length) ==
    { [i \in 1..length |-> IF i = 1 THEN alphabet[k] ELSE alphabet[1]] :
        k \in 1..NumChoices }

\* ------------------------------------------------------------- database.py

\* A value of Python's None.
None == 0

\* The rows of table urls are kept in insertion order.  A row is
\* [id, short_code, original_url, created_at].

\* A filter matching every short_code that starts with code.
query_short_code_prefix(s, code) ==
    { i \in 1..Len(s) :
        /\ Len(s[i].short_code) >= Len(code)
        /\ SubSeq(s[i].short_code, 1, Len(code)) = code }

\* A filter comparing short codes without regard to case.
query_short_code_nocase(s, code) ==
    { i \in 1..Len(s) :
        /\ Len(s[i].short_code) = Len(code)
        /\ \A k \in 1..Len(code) : Lower(s[i].short_code[k]) = Lower(code[k]) }

\* db.query(URL).filter(URL.short_code == code): the matching row numbers.
query_short_code(s, code) ==
    { i \in 1..Len(s) : s[i].short_code = code }

\* A filter comparing the URL with the wrong column.
query_original_url_wrong_column(s, url) ==
    { i \in 1..Len(s) : s[i].short_code = url }

\* db.query(URL).filter(URL.original_url == url): the matching row numbers.
query_original_url(s, url) ==
    { i \in 1..Len(s) : s[i].original_url = url }

\* A table without the unique index on short_code.
IntegrityError_none(s, code, url) ==
    FALSE

\* A table with unique indexes on short_code and on original_url.
IntegrityError_url_too(s, code, url) ==
    \/ \E i \in 1..Len(s) : s[i].short_code = code
    \/ \E i \in 1..Len(s) : s[i].original_url = url

\* Column(String, unique=True) on short_code, and no constraint on
\* original_url: the INSERT of a row is rejected exactly when its
\* short_code is already held by a row.
IntegrityError(s, code, url) ==
    \E i \in 1..Len(s) : s[i].short_code = code

\* Column(Integer, primary_key=True): the next automatic id.
NextId(s) == Len(s) + 1

\* ---------------------------------------------------------------- state

VARIABLES
    store,           \* the rows of table urls
    now,             \* datetime.utcnow(), as a logical clock
    pc,              \* where each request's handler stands
    op,              \* the handler serving each request
    arg,             \* request.url, or the short_code of the path
    normalized_url,  \* shorten_url's local normalized_url
    attempts,        \* iterations get_unique_short_code has completed
    db_url,          \* shorten_url's local db_url (the ORM object)
    resp             \* the HTTP response of each request

vars == <<store, now, pc, op, arg, normalized_url, attempts, db_url, resp>>

NoUrl == [id |-> None, short_code |-> <<>>, original_url |-> <<>>,
          created_at |-> None]

NoResp == [status |-> 0]

\* os.getenv("BASE_URL", "http://localhost:8000")
base_url == "http://localhost:8000"

\* URLShortenResponse(short_url=..., original_url=..., short_code=...,
\* created_at=...) with the route's status code.
URLShortenResponse(status, row) ==
    [status       |-> status,
     short_url    |-> <<base_url, "/">> \o row.short_code,
     original_url |-> row.original_url,
     short_code   |-> row.short_code,
     created_at   |-> row.created_at]

\* HTTPException(status_code=status, detail=detail)
HTTPException(status, detail) ==
    [status |-> status, detail |-> detail]

\* The path parameters clients send to GET /{short_code} and
\* GET /api/stats/{short_code}: every code the generator can give, a code
\* differing from one of them in case only, and a code never generated.
LookupCodes ==
    generate_short_code(DefaultLength)
        \cup generate_short_code(DefaultLength + 2)
        \cup { [i \in 1..DefaultLength |-> IF i = 1 THEN "A" ELSE "a"],
               <<"n", "o", "n", "e">> }

Init ==
    /\ store = <<>>
    /\ now = 1
    /\ pc = [p \in Requests |-> "idle"]
    /\ op = [p \in Requests |-> "none"]
    /\ arg = [p \in Requests |-> <<>>]
    /\ normalized_url = [p \in Requests |-> <<>>]
    /\ attempts = [p \in Requests |-> 0]
    /\ db_url = [p \in Requests |-> NoUrl]
    /\ resp = [p \in Requests |-> NoResp]

InFlight(p) == pc[p] \notin {"idle", "done"}

\* Requests are numbered in the order they arrive; a request is taken up
\* when a worker is free.
Arrives(p) ==
    /\ pc[p] = "idle"
    /\ p > 1 => pc[p - 1] # "idle"
    /\ Cardinality({ q \in Requests : InFlight(q) }) < NumWorkers

Finish(p, response) ==
    /\ pc' = [pc EXCEPT ![p] = "done"]
    /\ resp' = [resp EXCEPT ![p] = response]

\* ------------------------------------------------ POST /api/shorten

\* Request validation (URLShortenRequest), validate_url and normalize_url:
\* the part of shorten_url that runs before its first query.
shorten_url_request(p, url) ==
    /\ Arrives(p)
    /\ op' = [op EXCEPT ![p] = "shorten_url"]
    /\ arg' = [arg EXCEPT ![p] = url]
    /\ IF Len(url) < UrlMinLength
       THEN /\ Finish(p, HTTPException(HTTP_422_UNPROCESSABLE_ENTITY,
                         <<"String should have at least 1 character">>))
            /\ UNCHANGED normalized_url
       ELSE IF ~validate_url(url)
       THEN /\ Finish(p, HTTPException(HTTP_400_BAD_REQUEST,
                         <<"Invalid URL format. Please provide a valid URL">>))
            /\ UNCHANGED normalized_url
       ELSE /\ normalized_url' = [normalized_url EXCEPT ![p] = normalize_url(url)]
            /\ pc' = [pc EXCEPT ![p] = "dedup"]
            /\ UNCHANGED resp
    /\ UNCHANGED <<store, now, attempts, db_url>>

\* existing_url = db.query(URL).filter(URL.original_url == normalized_url)
\* .first(): without ORDER BY, any matching row may come first.
shorten_url_dedup(p) ==
    /\ pc[p] = "dedup"
    /\ LET existing == query_original_url(store, normalized_url[p]) IN
       IF existing # {}
       THEN /\ \E i \in existing :
                 Finish(p, URLShortenResponse(HTTP_201_CREATED, store[i]))
       ELSE /\ pc' = [pc EXCEPT ![p] = "generate"]
            /\ UNCHANGED resp
    /\ UNCHANGED <<store, now, op, arg, normalized_url, attempts, db_url>>

\* get_unique_short_code returns code (its loop is over): shorten_url builds
\* db_url = URL(short_code=short_code, original_url=normalized_url).
ReturnCode(p, code) ==
    /\ db_url' = [db_url EXCEPT ![p] =
                    [id |-> None, short_code |-> code,
                     original_url |-> normalized_url[p], created_at |-> None]]
    /\ pc' = [pc EXCEPT ![p] = "commit"]
    /\ attempts' = [attempts EXCEPT ![p] = 0]

\* One iteration of the loop of get_unique_short_code(db, length,
\* max_attempts): a candidate, its query, and the return; after the last
\* colliding candidate, the unchecked code of length + 2.
get_unique_short_code(p, length, max_attempts) ==
    /\ pc[p] = "generate"
    /\ \E code \in generate_short_code(length) :
         IF query_short_code(store, code) = {}
         THEN ReturnCode(p, code)
         ELSE IF attempts[p] + 1 < max_attempts
         THEN /\ attempts' = [attempts EXCEPT ![p] = attempts[p] + 1]
              /\ UNCHANGED <<pc, db_url>>
         ELSE \E longer \in generate_short_code(length + 2) :
                 ReturnCode(p, longer)
    /\ UNCHANGED <<store, now, op, arg, normalized_url, resp>>

\* db.add(db_url); db.commit(): the INSERT, which the unique index may
\* reject; except: db.rollback() and HTTP 500.
shorten_url_commit(p) ==
    /\ pc[p] = "commit"
    /\ IF IntegrityError(store, db_url[p].short_code, db_url[p].original_url)
       THEN /\ Finish(p, HTTPException(HTTP_500_INTERNAL_SERVER_ERROR,
                         <<"Failed to save URL: ", "IntegrityError">>))
            /\ UNCHANGED <<store, now, db_url>>
       ELSE /\ LET row == [id           |-> NextId(store),
                           short_code   |-> db_url[p].short_code,
                           original_url |-> db_url[p].original_url,
                           created_at   |-> now]
               IN /\ store' = Append(store, row)
                  /\ db_url' = [db_url EXCEPT ![p].id = row.id]
            /\ now' = now + 1
            /\ pc' = [pc EXCEPT ![p] = "refresh"]
            /\ UNCHANGED resp
    /\ UNCHANGED <<op, arg, normalized_url, attempts>>

\* db.commit() raises because the database fails (locked, disk, connection):
\* nothing is written; except: db.rollback() and HTTP 500.
shorten_url_commit_fails(p) ==
    /\ pc[p] = "commit"
    /\ Finish(p, HTTPException(HTTP_500_INTERNAL_SERVER_ERROR,
                 <<"Failed to save URL: ", "OperationalError">>))
    /\ UNCHANGED <<store, now, op, arg, normalized_url, attempts, db_url>>

\* db.refresh(db_url) reloads the committed row by its id; the handler
\* answers 201 with its fields.
shorten_url_refresh(p) ==
    /\ pc[p] = "refresh"
    /\ \E i \in 1..Len(store) :
         /\ store[i].id = db_url[p].id
         /\ db_url' = [db_url EXCEPT ![p] = store[i]]
         /\ Finish(p, URLShortenResponse(HTTP_201_CREATED, store[i]))
    /\ UNCHANGED <<store, now, op, arg, normalized_url, attempts>>

\* db.refresh(db_url) raises because the database fails after the commit:
\* except: db.rollback(), which has nothing left to undo, and HTTP 500.
shorten_url_refresh_fails(p) ==
    /\ pc[p] = "refresh"
    /\ Finish(p, HTTPException(HTTP_500_INTERNAL_SERVER_ERROR,
                 <<"Failed to save URL: ", "OperationalError">>))
    /\ UNCHANGED <<store, now, op, arg, normalized_url, attempts, db_url>>

\* ------------------------------------------------ GET /{short_code}

\* f"Short code '{short_code}' not found"
NotFoundDetail(code) ==
    <<"Short code '">> \o code \o <<"' not found">>

redirect_url(p, short_code) ==
    /\ Arrives(p)
    /\ op' = [op EXCEPT ![p] = "redirect_url"]
    /\ arg' = [arg EXCEPT ![p] = short_code]
    /\ LET url_record == query_short_code(store, short_code) IN
       IF url_record = {}
       THEN Finish(p, HTTPException(HTTP_404_NOT_FOUND,
                      NotFoundDetail(short_code)))
       ELSE \E i \in url_record :
               Finish(p, [status   |-> HTTP_302_FOUND,
                          location |-> store[i].original_url])
    /\ UNCHANGED <<store, now, normalized_url, attempts, db_url>>

\* ------------------------------------------------ GET /api/stats/{short_code}

get_url_stats(p, short_code) ==
    /\ Arrives(p)
    /\ op' = [op EXCEPT ![p] = "get_url_stats"]
    /\ arg' = [arg EXCEPT ![p] = short_code]
    /\ LET url_record == query_short_code(store, short_code) IN
       IF url_record = {}
       THEN Finish(p, HTTPException(HTTP_404_NOT_FOUND,
                      NotFoundDetail(short_code)))
       ELSE \E i \in url_record :
               Finish(p, URLShortenResponse(HTTP_200_OK, store[i]))
    /\ UNCHANGED <<store, now, normalized_url, attempts, db_url>>

\* ------------------------------------------------ specifications

\* One step of request p.
Step(p) ==
    \/ \E url \in RawUrls : shorten_url_request(p, url)
    \/ shorten_url_dedup(p)
    \/ get_unique_short_code(p, DefaultLength, DefaultMaxAttempts)
    \/ shorten_url_commit(p)
    \/ shorten_url_commit_fails(p)
    \/ shorten_url_refresh(p)
    \/ shorten_url_refresh_fails(p)
    \/ \E code \in LookupCodes : redirect_url(p, code)
    \/ \E code \in LookupCodes : get_url_stats(p, code)

\* Concurrent requests: the steps of the requests interleave.
Next == \E p \in Requests : Step(p)

Spec == Init /\ [][Next]_vars

\* No other request is in progress.
Alone(p) == \A q \in Requests \ {p} : ~InFlight(q)

\* No concurrency: a request arrives only after the one before it is answered.
NextSeq ==
    \E p \in Requests :
        \/ \E url \in RawUrls : Alone(p) /\ shorten_url_request(p, url)
        \/ Alone(p) /\ shorten_url_dedup(p)
        \/ Alone(p) /\ get_unique_short_code(p, DefaultLength, DefaultMaxAttempts)
        \/ Alone(p) /\ shorten_url_commit(p)
        \/ Alone(p) /\ shorten_url_commit_fails(p)
        \/ Alone(p) /\ shorten_url_refresh(p)
        \/ Alone(p) /\ shorten_url_refresh_fails(p)
        \/ \E code \in LookupCodes : Alone(p) /\ redirect_url(p, code)
        \/ \E code \in LookupCodes : Alone(p) /\ get_url_stats(p, code)

SpecSeq == Init /\ [][NextSeq]_vars

\* ------------------------------------------------ properties

IsShorten(p) == op[p] = "shorten_url"

\* Request p was answered 201 by shorten_url.
Created(p) == IsShorten(p) /\ pc[p] = "done" /\ resp[p].status = HTTP_201_CREATED

\* Request p was answered 500 by shorten_url.
Failed(p) ==
    IsShorten(p) /\ pc[p] = "done"
        /\ resp[p].status = HTTP_500_INTERNAL_SERVER_ERROR

\* The rows request p's INSERT wrote.
WrittenBy(p) == { i \in 1..Len(store) : store[i].id = db_url[p].id }

\* The normalized form of raw URL u, as the specification words it.
WithScheme(u) ==
    IF Len(u) > 0 /\ (u[1] = "http://" \/ u[1] = "https://")
    THEN u
    ELSE <<"https://">> \o u

\* C1: in every reachable state, under any interleaving of requests, no two
\* rows of the store share a short_code.
C1_UniqueShortCode ==
    \A i, j \in 1..Len(store) :
        i # j => store[i].short_code # store[j].short_code

\* C1 witness: the retry loop was exhausted, the unchecked code of length
\* DefaultLength + 2 was already stored, and the INSERT was rejected.
C1_Witness ==
    \E p \in Requests :
        /\ Failed(p)
        /\ resp[p].detail[2] = "IntegrityError"
        /\ Len(db_url[p].short_code) = DefaultLength + 2
        /\ \E i \in 1..Len(store) : store[i].short_code = db_url[p].short_code

\* C2: without concurrency, once shorten_url(u) was answered 201, a later
\* shorten_url(u) is answered 201 with the same short_code, and the store
\* holds exactly one row with that original_url.
C2_Idempotent ==
    \A p \in Requests :
        Created(p) =>
            /\ Cardinality(query_original_url(store, resp[p].original_url)) = 1
            /\ \A q \in Requests :
                 (p < q /\ IsShorten(q) /\ pc[q] = "done" /\ arg[q] = arg[p]) =>
                     /\ resp[q].status = HTTP_201_CREATED
                     /\ resp[q].short_code = resp[p].short_code

\* C2 witness: the same URL was submitted twice, one request after the
\* other, and both were answered 201.
C2_Witness ==
    \E p, q \in Requests :
        /\ p < q /\ Created(p) /\ Created(q)
        /\ arg[q] = arg[p]
        /\ Len(store) = 1

\* C3: whenever shorten_url(u) was answered 201 with short_code c, every
\* later redirect_url(c) is answered 302 with the normalized form of u.
C3_RoundTrip ==
    [][ \A q \in Requests :
          (pc[q] = "idle" /\ op'[q] = "redirect_url") =>
              \A p \in Requests :
                  (Created(p) /\ resp[p].short_code = arg'[q]) =>
                      resp'[q] = [status   |-> HTTP_302_FOUND,
                                  location |-> WithScheme(arg[p])] ]_vars

\* C3 witness: a URL without a scheme was shortened and a redirect for the
\* returned code was answered 302, with other rows in the store.
C3_Witness ==
    \E p, q \in Requests :
        /\ Created(p) /\ ~StartsWithScheme(arg[p])
        /\ op[q] = "redirect_url" /\ pc[q] = "done"
        /\ arg[q] = resp[p].short_code
        /\ resp[q].status = HTTP_302_FOUND
        /\ resp[q].location = <<"https://">> \o arg[p]
        /\ Len(store) >= 2

\* C4: a URL u without scheme is stored and returned as "https://" + u; a
\* later shorten_url of u or of "https://" + u, issued after the first was
\* answered, returns the same short_code; and every stored original_url
\* starts with http:// or https://.
C4_NormalizedBeforeStoreAndDedup ==
    /\ \A i \in 1..Len(store) :
         /\ Len(store[i].original_url) > 0
         /\ store[i].original_url[1] \in {"http://", "https://"}
    /\ \A p \in Requests :
         (Created(p) /\ ~(arg[p][1] \in {"http://", "https://"})) =>
            /\ resp[p].original_url = <<"https://">> \o arg[p]
            /\ \E i \in 1..Len(store) :
                 /\ store[i].original_url = <<"https://">> \o arg[p]
                 /\ store[i].short_code = resp[p].short_code
            /\ \A q \in Requests :
                 ( /\ p < q /\ IsShorten(q) /\ pc[q] = "done"
                   /\ arg[q] \in {arg[p], <<"https://">> \o arg[p]} ) =>
                     /\ resp[q].status = HTTP_201_CREATED
                     /\ resp[q].short_code = resp[p].short_code

\* C4 witness: "example.com" was shortened, and afterwards
\* "https://example.com" was answered with the same row.
C4_Witness ==
    \E p, q \in Requests :
        /\ p < q /\ Created(p) /\ Created(q)
        /\ arg[p] = <<"example.com">>
        /\ arg[q] = <<"https://", "example.com">>
        /\ resp[q].short_code = resp[p].short_code
        /\ Len(store) = 1

\* C5: shorten_url of the empty URL and of a URL that fails validation are
\* both answered 400, and the store is left unchanged.
C5_InvalidIs400 ==
    [][ \A p \in Requests :
          ( /\ pc[p] = "idle" /\ op'[p] = "shorten_url"
            /\ arg'[p] \in {<<>>, <<"not-a-valid-url">>} ) =>
              /\ pc'[p] = "done"
              /\ resp'[p].status = HTTP_400_BAD_REQUEST
              /\ store' = store ]_vars

\* C6: when shorten_url is answered 500 because add, commit or refresh
\* failed, the store holds no row written by that request.
C6_FailedInsertLeavesNoRow ==
    \A p \in Requests : Failed(p) => WrittenBy(p) = {}

\* C7: the INSERT is rejected only for a short_code that a row already
\* holds, never for its original_url; so two requests that both passed the
\* dedup lookup for one URL are both stored.
C7_NoConstraintOnOriginalUrl ==
    \A p \in Requests :
        /\ (Failed(p) /\ resp[p].detail[2] = "IntegrityError") =>
              \E i \in 1..Len(store) :
                  /\ store[i].short_code = db_url[p].short_code
                  /\ i \notin WrittenBy(p)
        /\ Created(p) =>
              \E i \in 1..Len(store) :
                  /\ store[i].short_code = resp[p].short_code
                  /\ store[i].original_url = resp[p].original_url

\* C7 witness: two requests for the same new URL were both answered 201
\* with different short codes, and the store holds both rows.
C7_Witness ==
    \E p, q \in Requests :
        /\ p # q /\ Created(p) /\ Created(q)
        /\ normalized_url[p] = normalized_url[q]
        /\ resp[p].short_code # resp[q].short_code
        /\ WrittenBy(p) # {} /\ WrittenBy(q) # {}
        /\ \A i \in WrittenBy(p) \cup WrittenBy(q) :
              store[i].original_url = normalized_url[p]

\* C8: redirect_url and get_url_stats are answered 404, with the code in
\* the detail, for every code no row holds, and are never answered 404 for
\* a code some row holds.
C8_NotFoundIffAbsent ==
    [][ \A q \in Requests :
          (pc[q] = "idle" /\ op'[q] \in {"redirect_url", "get_url_stats"}) =>
              IF \E i \in 1..Len(store) : store[i].short_code = arg'[q]
              THEN resp'[q].status # HTTP_404_NOT_FOUND
              ELSE /\ resp'[q].status = HTTP_404_NOT_FOUND
                   /\ Contains(resp'[q].detail, arg'[q]) ]_vars

\* C8 witness: a redirect for a code that differs from a stored code in
\* case only was answered 404, and the stats of a stored code 200.
C8_Witness ==
    \E q, r \in Requests :
        /\ op[q] = "redirect_url" /\ pc[q] = "done"
        /\ resp[q].status = HTTP_404_NOT_FOUND
        /\ arg[q][1] = "A"
        /\ \E i \in 1..Len(store) : store[i].short_code[1] = "a"
        /\ op[r] = "get_url_stats" /\ pc[r] = "done"
        /\ resp[r].status = HTTP_200_OK

\* C9: get_unique_short_code returns a code that no row of the store holds
\* at the moment it returns.
C9_ReturnedCodeIsAbsent ==
    [][ \A p \in Requests :
          (pc[p] = "generate" /\ pc'[p] = "commit") =>
              ~\E i \in 1..Len(store') :
                  store'[i].short_code = db_url'[p].short_code ]_vars

\* C10: rows are never changed or removed; redirect_url and get_url_stats
\* leave the store unchanged; and only a shorten_url that is answered 201
\* after missing the dedup lookup adds a row, exactly one.
C10_CreateOnly ==
    [][ /\ Len(store') >= Len(store)
        /\ Len(store') <= Len(store) + 1
        /\ \A i \in 1..Len(store) : store'[i] = store[i]
        /\ \A p \in Requests :
             /\ (pc[p] = "idle" /\ op'[p] \in {"redirect_url", "get_url_stats"})
                   => store' = store
             /\ (pc[p] # "done" /\ pc'[p] = "done"
                   /\ resp'[p].status # HTTP_201_CREATED)
                   => { i \in 1..Len(store') : store'[i].id = db_url'[p].id } = {} ]_vars

\* The characters of string.ascii_letters + string.digits.
Alphanumeric == { alphabet[k] : k \in 1..Len(alphabet) }

====
